---------------------------- MODULE Spec2Model ----------------------------
(***************************************************************************)
(* CYP2D6-GenoMatcher: construction of the diplotype reference table       *)
(* (00-preprocessing_data/preprocess_data.py) and the per-sample matcher   *)
(* (01-genotype_CYP2D6/genotype_CYP2D6.py).                                *)
(*                                                                         *)
(* A Python str is a sequence of one-character strings, so that the        *)
(* regular expressions, split('/') and the f-strings of the source are     *)
(* computed character by character.  A Python dict that the code iterates  *)
(* (haplotype_data, combinations_dict) is a sequence of entries            *)
(* [k |-> key, v |-> value] in insertion order; the inner per-haplotype    *)
(* dict, only ever compared and looked up, is a function from column name  *)
(* to value.                                                               *)
(***************************************************************************)
EXTENDS Integers, Sequences, FiniteSets, TLC

VARIABLES
    pc,                       \* position in the two main() functions
    pharmvardata,             \* the PharmVar records handed to the builder
    haplotype_data,           \* dict haplotype name -> attribute dict
    hybrid_genes,             \* the combination tuples, in processing order
    cnv_exceptions,           \* argument of add_cnv_values_ex9
    special_combinations_cnv, \* argument of add_cnv_values_ex9 (dict)
    cnv_lists,                \* arguments of cnv_variations
    ranking,                  \* argument of add_ranking
    diplotypes_df,            \* the reference table, one row per diplotype
    sample_data,              \* the observation built by the matcher's main
    matches,                  \* result of evaluate_matches
    outcome,                  \* how the matcher's main ended
    first_match,              \* the Genotype of the row print_matches takes
    adjusted_genotype         \* the text print_matches writes

vars == <<pc, pharmvardata, haplotype_data, hybrid_genes, cnv_exceptions,
          special_combinations_cnv, cnv_lists, ranking, diplotypes_df,
          sample_data, matches, outcome, first_match, adjusted_genotype>>

\* Largest number of PharmVar records in the input table.
MaxRecords == 2

(***************************************************************************)
(* Strings                                                                 *)
(***************************************************************************)
Digits == <<"0", "1", "2", "3", "4", "5", "6", "7", "8", "9">>

IsDigit(c) == \E i \in 1..10 : Digits[i] = c

DigitVal(c) == (CHOOSE i \in 1..10 : Digits[i] = c) - 1

\* Python's None, and the text str() and an f-string give for it.
None == <<"None">>

NoneText == <<"N", "o", "n", "e">>

Text(v) == IF v = None THEN NoneText ELSE v

\* str(n) of a non-negative int.
RECURSIVE StrInt(_)
StrInt(n) == IF n < 10 THEN <<Digits[n + 1]>>
             ELSE StrInt(n \div 10) \o <<Digits[(n % 10) + 1]>>

\* s.split(sep) for a one-character sep: the pieces between the separators,
\* empty pieces kept.
RECURSIVE SplitFrom(_, _, _, _)
SplitFrom(s, sep, i, piece) ==
    IF i > Len(s) THEN <<piece>>
    ELSE IF s[i] = sep THEN <<piece>> \o SplitFrom(s, sep, i + 1, <<>>)
    ELSE SplitFrom(s, sep, i + 1, Append(piece, s[i]))

SplitOn(s, sep) == SplitFrom(s, sep, 1, <<>>)

Split(s) == SplitOn(s, "/")

Range(q) == {q[i] : i \in 1..Len(q)}

\* set(s.split('/'))
AlleleSet(s) == Range(Split(s))

\* sep.join(parts)
RECURSIVE Join(_, _)
Join(parts, sep) ==
    IF Len(parts) = 0 THEN <<>>
    ELSE IF Len(parts) = 1 THEN parts[1]
    ELSE parts[1] \o sep \o Join(Tail(parts), sep)

EndsWith(s, suffix) ==
    /\ Len(s) >= Len(suffix)
    /\ SubSeq(s, Len(s) - Len(suffix) + 1, Len(s)) = suffix

Contains(s, c) == \E i \in 1..Len(s) : s[i] = c

\* s < t in Python's str order, for the characters the alleles use.
CharRank(c) ==
    CASE c = "-" -> 1 [] c = "/" -> 2
      [] c = "A" -> 3 [] c = "C" -> 4 [] c = "G" -> 5 [] c = "T" -> 6
      [] OTHER -> 7

RECURSIVE StrLess(_, _)
StrLess(s, t) ==
    IF Len(t) = 0 THEN FALSE
    ELSE IF Len(s) = 0 THEN TRUE
    ELSE IF s[1] # t[1] THEN CharRank(s[1]) < CharRank(t[1])
    ELSE StrLess(Tail(s), Tail(t))

\* sorted(S) of a set of strings
RECURSIVE SortedStrings(_)
SortedStrings(S) ==
    IF S = {} THEN <<>>
    ELSE LET m == CHOOSE x \in S : \A y \in S \ {x} : StrLess(x, y)
         IN <<m>> \o SortedStrings(S \ {m})

(***************************************************************************)
(* Insertion-ordered dicts                                                 *)
(***************************************************************************)
Keys(d) == [i \in 1..Len(d) |-> d[i].k]

Has(d, key) == \E i \in 1..Len(d) : d[i].k = key

Get(d, key) == d[CHOOSE i \in 1..Len(d) : d[i].k = key].v

\* d[key] = value: a new key goes last, an existing key keeps its place.
Put(d, key, value) ==
    IF Has(d, key)
    THEN [i \in 1..Len(d) |-> IF d[i].k = key THEN [k |-> key, v |-> value] ELSE d[i]]
    ELSE Append(d, [k |-> key, v |-> value])

\* del d[key]
Del(d, key) == SelectSeq(d, LAMBDA e : e.k # key)

\* row.get(column): None for a missing column.
Attr(row, column) == IF column \in DOMAIN row THEN row[column] ELSE None

(***************************************************************************)
(* The names and alleles of the runs                                       *)
(***************************************************************************)
Locus == <<"C", "Y", "P", "2", "D", "6">>

Star(suffix) == Locus \o <<"*">> \o suffix

S1 == Star(<<"1">>)
S5 == Star(<<"5">>)
S4 == Star(<<"4">>)
S4_013 == Star(<<"4", ".", "0", "1", "3">>)
S38 == Star(<<"3", "8">>)

Plus(a, b) == a \o <<"+">> \o b

\* the catalog of site ids, rs_numbers.txt
specific_rsIds == <<"rs1", "rs2">>

CatalogSet == Range(specific_rsIds)

\* an rsID of the PharmVar table that is not in the catalog
OtherRsId == "rs9"

ReferenceAllele(rsID) == IF rsID = "rs1" THEN <<"A">> ELSE <<"C">>

VariantAllele(rsID) == IF rsID = "rs1" THEN <<"G">> ELSE <<"T">>

InputNames == {S4, S4_013}

PharmVarRecords ==
    {[name |-> n, rsID |-> r, ref |-> ReferenceAllele(r), var |-> VariantAllele(r)] :
        n \in InputNames, r \in CatalogSet}
    \cup {[name |-> S4, rsID |-> OtherRsId,
           ref |-> ReferenceAllele(OtherRsId), var |-> VariantAllele(OtherRsId)]}

SeqsUpTo(S, n) == UNION {[1..m -> S] : m \in 0..n}

(***************************************************************************)
(* filter_for_rsnumbers                                                    *)
(***************************************************************************)
\* pharmvardata[pharmvardata['rsID'].isin(specific_rsIds)]
FilteredData(data, rsIds) == SelectSeq(data, LAMBDA r : r.rsID \in Range(rsIds))

\* the largest member of a non-empty set of indexes
Last(indexes) == CHOOSE i \in indexes : \A j \in indexes : j <= i

\* reference_dict.get(rsID, '-'): to_dict() keeps the last value of a
\* repeated index
ReferenceName(filtered, rsID) ==
    LET rows == {i \in 1..Len(filtered) : filtered[i].rsID = rsID}
    IN IF rows = {} THEN <<"-">> ELSE filtered[Last(rows)].ref

\* variant_dict.get((haplotype_name, rsID))
VariantName(filtered, name, rsID) ==
    LET rows == {i \in 1..Len(filtered) :
                    filtered[i].name = name /\ filtered[i].rsID = rsID}
    IN IF rows = {} THEN None ELSE filtered[Last(rows)].var

\* list(filtered_data['Haplotype Name'].unique()): first appearances, in order
RECURSIVE UniqueNames(_, _)
UniqueNames(filtered, seen) ==
    IF Len(filtered) = 0 THEN seen
    ELSE UniqueNames(Tail(filtered),
                     IF filtered[1].name \in Range(seen) THEN seen
                     ELSE Append(seen, filtered[1].name))

required_haplotypes == <<S5, S1>>

\* haplotypes.insert(0, haplotype) for each missing required haplotype
RECURSIVE InsertRequired(_, _)
InsertRequired(haplotypes, required) ==
    IF Len(required) = 0 THEN haplotypes
    ELSE InsertRequired(IF required[1] \in Range(haplotypes) THEN haplotypes
                        ELSE <<required[1]>> \o haplotypes,
                        Tail(required))

\* the attribute dict with only the sites where the haplotype has a variant
SiteAllelesVariantOnly(filtered, name, rsIds) ==
    [rsID \in {r \in Range(rsIds) : VariantName(filtered, name, r) # None} |->
        VariantName(filtered, name, rsID)]

\* the attribute dict of one haplotype: variant allele, else reference allele
SiteAlleles(filtered, name, rsIds) ==
    [rsID \in Range(rsIds) |->
        IF VariantName(filtered, name, rsID) # None
        THEN VariantName(filtered, name, rsID)
        ELSE ReferenceName(filtered, rsID)]

RECURSIVE FillTable(_, _, _, _)
FillTable(d, haplotypes, filtered, rsIds) ==
    IF Len(haplotypes) = 0 THEN d
    ELSE FillTable(Put(d, haplotypes[1], SiteAlleles(filtered, haplotypes[1], rsIds)),
                   Tail(haplotypes), filtered, rsIds)

\* haplotype_name.split('.')[0] with the separator mistyped as '*'
MainVariantAtStar(name) == SplitOn(name, "*")[1]

\* haplotype_name.split('.')[0]
MainVariant(name) == SplitOn(name, ".")[1]

\* the test of one pass of the collapse loop for haplotype_name
IsRedundantSubvariant(d, name) ==
    /\ Contains(name, ".")
    /\ Has(d, MainVariant(name))
    /\ Get(d, name) = Get(d, MainVariant(name))

\* for haplotype_name in list(haplotype_data.keys()): ... del
RECURSIVE CollapseFrom(_, _)
CollapseFrom(d, names) ==
    IF Len(names) = 0 THEN d
    ELSE CollapseFrom(IF IsRedundantSubvariant(d, names[1]) THEN Del(d, names[1]) ELSE d,
                      Tail(names))

collapse_subvariants(d) == CollapseFrom(d, Keys(d))

filter_for_rsnumbers(data, rsIds) ==
    LET filtered == FilteredData(data, rsIds)
        haplotypes == InsertRequired(UniqueNames(filtered, <<>>), required_haplotypes)
    IN collapse_subvariants(FillTable(<<>>, haplotypes, filtered, rsIds))

(***************************************************************************)
(* special_combinations                                                    *)
(***************************************************************************)
EmptyDict == [column \in {} |-> None]

\* row[column] = value
SetAttr(row, column, value) == (column :> value) @@ row

\* the list "names" of one rsID: what the members present in the table carry
RECURSIVE ContributedNames(_, _, _)
ContributedNames(d, combination, rsID) ==
    IF Len(combination) = 0 THEN <<>>
    ELSE (IF Has(d, combination[1]) /\ rsID \in DOMAIN Get(d, combination[1])
          THEN <<Get(d, combination[1])[rsID]>> ELSE <<>>)
         \o ContributedNames(d, Tail(combination), rsID)

\* name_value of one rsID with the differing names joined as collected
CombinedAlleleUnsorted(names) ==
    IF Len(names) = 0 THEN <<"-">>
    ELSE IF Cardinality(Range(names)) = 1 THEN names[1]
    ELSE Join(names, <<"/">>)

\* name_value of one rsID
CombinedAllele(names) ==
    IF Len(names) = 0 THEN <<"-">>
    ELSE IF Cardinality(Range(names)) = 1 THEN names[1]
    ELSE Join(SortedStrings(Range(names)), <<"/">>)

\* the inner loop over specific_rsIds, writing into haplotype_data as it goes
RECURSIVE CombineSites(_, _, _, _)
CombineSites(d, combination, combined_name, rsIds) ==
    IF Len(rsIds) = 0 THEN d
    ELSE CombineSites(
            Put(d, combined_name,
                SetAttr(Get(d, combined_name), rsIds[1],
                        CombinedAllele(ContributedNames(d, combination, rsIds[1])))),
            combination, combined_name, Tail(rsIds))

\* one pass of the outer loop
AddCombination(d, combination, rsIds) ==
    LET combined_name == Join(combination, <<"+">>)
    IN CombineSites(Put(d, combined_name, EmptyDict), combination, combined_name, rsIds)

RECURSIVE special_combinations(_, _, _)
special_combinations(d, combinations, rsIds) ==
    IF Len(combinations) = 0 THEN d
    ELSE special_combinations(AddCombination(d, combinations[1], rsIds),
                              Tail(combinations), rsIds)

(***************************************************************************)
(* add_cnv_values_ex9, cnv_variations, add_ranking                         *)
(***************************************************************************)
\* the CNV of one haplotype, with the exception list applied last
CnvValueExceptionLast(name, exceptions, predefined) ==
    IF name \in Range(exceptions) THEN 0
    ELSE IF name \in DOMAIN predefined THEN predefined[name]
    ELSE 1

\* the CNV one pass of the loop leaves on haplotype_name
CnvValue(name, exceptions, predefined) ==
    LET cnv_value == IF name \in Range(exceptions) THEN 0 ELSE 1
    IN IF name \in DOMAIN predefined THEN predefined[name] ELSE cnv_value

add_cnv_values_ex9(d, exceptions, predefined) ==
    [i \in 1..Len(d) |->
        [k |-> d[i].k,
         v |-> SetAttr(d[i].v, "CNV", CnvValue(d[i].k, exceptions, predefined))]]

\* one of the two loops without .copy(): the new name is bound to the source's
\* own dict, so the CNV assignment shows under both names
RECURSIVE MultiplyAliased(_, _, _, _)
MultiplyAliased(d, names, suffix, copies) ==
    IF Len(names) = 0 THEN d
    ELSE MultiplyAliased(
            IF Has(d, names[1])
            THEN Put(Put(d, names[1], SetAttr(Get(d, names[1]), "CNV", copies)),
                     names[1] \o suffix, SetAttr(Get(d, names[1]), "CNV", copies))
            ELSE d,
            Tail(names), suffix, copies)

\* one of the two loops: copies of the listed haplotypes with CNV = copies
RECURSIVE Multiply(_, _, _, _)
Multiply(d, names, suffix, copies) ==
    IF Len(names) = 0 THEN d
    ELSE Multiply(IF Has(d, names[1])
                  THEN Put(d, names[1] \o suffix, SetAttr(Get(d, names[1]), "CNV", copies))
                  ELSE d,
                  Tail(names), suffix, copies)

cnv_variations(d, cnv_duplications, cnv_triplication) ==
    Multiply(Multiply(d, cnv_duplications, <<"x", "2">>, 2),
             cnv_triplication, <<"x", "3">>, 3)

\* the if/elif chain with the '2nd Tier' test ahead of the x2/x3 tests
TierSecondFirst(name, tiers) ==
    IF name \in Range(tiers.top) THEN 2
    ELSE IF name \in Range(tiers.second) THEN 1
    ELSE IF EndsWith(name, <<"x", "2">>) THEN 2
    ELSE IF EndsWith(name, <<"x", "3">>) THEN 2
    ELSE IF Contains(name, "+") THEN 1
    ELSE 0

\* tier_dict[haplotype_name]; tiers.top is ranking['Top Tier'], tiers.second
\* is ranking['2nd Tier']
Tier(name, tiers) ==
    IF name \in Range(tiers.top) THEN 2
    ELSE IF EndsWith(name, <<"x", "2">>) THEN 2
    ELSE IF EndsWith(name, <<"x", "3">>) THEN 2
    ELSE IF name \in Range(tiers.second) THEN 1
    ELSE IF Contains(name, "+") THEN 1
    ELSE 0

add_ranking(d, tiers) ==
    [i \in 1..Len(d) |->
        [k |-> d[i].k, v |-> SetAttr(d[i].v, "Ranking", Tier(d[i].k, tiers))]]

(***************************************************************************)
(* extract_numeric_value, pair_haplotypes, combinations_dict_to_dataframe  *)
(***************************************************************************)
\* int() of a run of digits
RECURSIVE IntOf(_, _)
IntOf(digits, acc) ==
    IF Len(digits) = 0 THEN acc
    ELSE IntOf(Tail(digits), 10 * acc + DigitVal(digits[1]))

\* the digits [0-9]+ matches from position i on (greedy)
RECURSIVE DigitRun(_, _)
DigitRun(s, i) ==
    IF i <= Len(s) /\ IsDigit(s[i]) THEN <<s[i]>> \o DigitRun(s, i + 1) ELSE <<>>

\* re.search(r'\*([0-9]+)', haplotype_name): leftmost '*' followed by a digit
extract_numeric_value(name) ==
    LET starts == {i \in 1..Len(name) :
                      name[i] = "*" /\ i < Len(name) /\ IsDigit(name[i + 1])}
    IN IF starts = {} THEN 0
       ELSE IntOf(DigitRun(name, 1 + CHOOSE i \in starts : \A j \in starts : i <= j), 0)

\* sorted([haplotype1, haplotype2], key=extract_numeric_value): stable
SortedPair(haplotype1, haplotype2) ==
    IF extract_numeric_value(haplotype2) < extract_numeric_value(haplotype1)
    THEN <<haplotype2, haplotype1>> ELSE <<haplotype1, haplotype2>>

CombinedKey(haplotype1, haplotype2) ==
    Join(SortedPair(haplotype1, haplotype2), <<"/">>)

\* combined_value with the equality shortcut taken ahead of the CNV and
\* Ranking handling
CombinedValueEqualFirst(value_name, value1, value2) ==
    IF value1 = value2 THEN value1
    ELSE IF value_name \in {"CNV", "Ranking"} THEN value1 + value2
    ELSE Text(value1) \o <<"/">> \o Text(value2)

\* combined_value of one attribute
CombinedValue(value_name, value1, value2) ==
    IF value_name \in {"CNV", "Ranking"} THEN value1 + value2
    ELSE IF value1 = value2 THEN value1
    ELSE Text(value1) \o <<"/">> \o Text(value2)

\* the attributes one pass of the pair loop stores under combined_key
CombinedRow(d, haplotype1, haplotype2) ==
    LET row1 == Get(d, haplotype1)
        row2 == Get(d, haplotype2)
    IN [value_name \in DOMAIN row1 \cup DOMAIN row2 |->
           CombinedValue(value_name, Attr(row1, value_name), Attr(row2, value_name))]

\* the first partner itertools.combinations gives the haplotype at index i
FirstPartnerAfter(i) == i + 1

\* the first partner combinations_with_replacement gives the haplotype at
\* index i of haplotypes_list: itself
FirstPartner(i) == i

\* the pairs combinations_with_replacement yields for the first member i, in
\* its order (second members j, j + 1, ... up to the end of the list), each
\* handled by one pass of the pair loop: a label not yet in combinations_dict
\* is added, a label met again has its attributes overwritten in place
RECURSIVE PairInner(_, _, _, _, _)
PairInner(combinations_dict, d, haplotypes_list, i, j) ==
    IF j > Len(haplotypes_list) THEN combinations_dict
    ELSE LET haplotype1 == haplotypes_list[i]
             haplotype2 == haplotypes_list[j]
             combined_key == CombinedKey(haplotype1, haplotype2)
             row == CombinedRow(d, haplotype1, haplotype2)
         IN IF ~Has(combinations_dict, combined_key)
            THEN PairInner(Put(combinations_dict, combined_key, row),
                           d, haplotypes_list, i, j + 1)
            ELSE PairInner(Put(combinations_dict, combined_key,
                               row @@ Get(combinations_dict, combined_key)),
                           d, haplotypes_list, i, j + 1)

\* all the pairs, first members in list order
RECURSIVE PairOuter(_, _, _, _)
PairOuter(combinations_dict, d, haplotypes_list, i) ==
    IF i > Len(haplotypes_list) THEN combinations_dict
    ELSE PairOuter(PairInner(combinations_dict, d, haplotypes_list, i, FirstPartner(i)),
                   d, haplotypes_list, i + 1)

pair_haplotypes(d) == PairOuter(<<>>, d, Keys(d), 1)

\* from_dict(orient='index'), reset_index, rename: the label becomes the
\* column Genotype of its row
combinations_dict_to_dataframe(combinations_dict) ==
    [i \in 1..Len(combinations_dict) |->
        SetAttr(combinations_dict[i].v, "Genotype", combinations_dict[i].k)]

(***************************************************************************)
(* evaluate_matches                                                        *)
(***************************************************************************)
\* str(row[rsID]): CNV and Ranking hold ints, the other columns strings
CellText(row, column) ==
    IF column \in {"CNV", "Ranking"} THEN StrInt(row[column]) ELSE Text(row[column])

\* the keys of data_input the comprehension keeps for a row, with the key
\* CNV that main attaches left out
ComparedKeysSitesOnly(row, data_input) == (DOMAIN data_input \cap DOMAIN row) \ {"CNV"}

\* the keys of data_input the comprehension keeps for a row
ComparedKeys(row, data_input) == DOMAIN data_input \cap DOMAIN row

\* user_df.loc[0, rsID].split('/') of a None raises AttributeError, which
\* the except KeyError clause does not catch
RowRaises(row, data_input) ==
    \E rsID \in ComparedKeys(row, data_input) : data_input[rsID] = None

\* allele_match of one row with any() for all()
AlleleMatchAny(row, data_input) ==
    \E rsID \in DOMAIN data_input \cap DOMAIN row :
        AlleleSet(data_input[rsID]) = AlleleSet(CellText(row, rsID))

\* allele_match of one row
AlleleMatch(row, data_input) ==
    \A rsID \in ComparedKeys(row, data_input) :
        AlleleSet(data_input[rsID]) = AlleleSet(CellText(row, rsID))

\* the loop over the rows: the first row that raises ends the call with no
\* list returned; otherwise the Genotype of every matching row, in row order
evaluate_matches(df, data_input) ==
    IF \E i \in 1..Len(df) : RowRaises(df[i], data_input)
    THEN [raised |-> TRUE, matches |-> <<>>]
    ELSE LET matching == SelectSeq(df, LAMBDA row : AlleleMatch(row, data_input))
         IN [raised |-> FALSE,
             matches |-> [i \in 1..Len(matching) |-> matching[i]["Genotype"]]]

(***************************************************************************)
(* print_matches                                                           *)
(***************************************************************************)
LocusStar == Locus \o <<"*">>

\* the characters \w matches, among those the names are written with
IsWordChar(c) == IsDigit(c) \/ c \in {"C", "Y", "P", "D", "x", "_"}

\* the characters of s at the positions of the set kept, in order
Subsequence(s, kept) ==
    [n \in 1..Cardinality(kept) |->
        s[CHOOSE i \in kept : Cardinality({j \in kept : j <= i}) = n]]

\* the substitution with the pattern r'/CYP2D6\*' replaced by '/*': only the
\* prefix that follows the pair separator is removed
SubLocusAfterSlash(s) ==
    LET found == {i \in 2..Len(s) :
                     /\ i + Len(LocusStar) - 1 <= Len(s)
                     /\ SubSeq(s, i, i + Len(LocusStar) - 1) = LocusStar
                     /\ s[i - 1] = "/"}
    IN Subsequence(s, {i \in 1..Len(s) :
                          ~\E m \in found : m <= i /\ i <= m + Len(Locus) - 1})

\* re.sub(r'\bCYP2D6\*', '*', genotype): the pattern cannot overlap itself,
\* so every occurrence at a word boundary loses its six letters
SubLocus(s) ==
    LET found == {i \in 1..Len(s) :
                     /\ i + Len(LocusStar) - 1 <= Len(s)
                     /\ SubSeq(s, i, i + Len(LocusStar) - 1) = LocusStar
                     /\ (i = 1 \/ ~IsWordChar(s[i - 1]))}
    IN Subsequence(s, {i \in 1..Len(s) :
                          ~\E m \in found : m <= i /\ i <= m + Len(Locus) - 1})

\* s.replace('*', 'CYP2D6*', 1)
ReplaceFirstStar(s) ==
    LET stars == {i \in 1..Len(s) : s[i] = "*"}
    IN IF stars = {} THEN s
       ELSE LET i == CHOOSE x \in stars : \A y \in stars : x <= y
            IN SubSeq(s, 1, i - 1) \o LocusStar \o SubSeq(s, i + 1, Len(s))

AdjustedGenotype(genotype) == ReplaceFirstStar(SubLocus(genotype))

\* diplotypes_df[diplotypes_df['Genotype'].isin(matches)]
MatchesDf(df, found) == SelectSeq(df, LAMBDA row : row["Genotype"] \in Range(found))

\* the rows sort_values(ascending=True) may put first
FirstRowsAscending(matches_df) ==
    {row \in Range(matches_df) :
        \A other \in Range(matches_df) : row["Ranking"] <= other["Ranking"]}

\* the rows sort_values(by='Ranking', ascending=False) may put first: the
\* default quicksort fixes no order among rows of equal Ranking
FirstRows(matches_df) ==
    {row \in Range(matches_df) :
        \A other \in Range(matches_df) : row["Ranking"] >= other["Ranking"]}

(***************************************************************************)
(* The literal data of the two main() functions, and the sample            *)
(***************************************************************************)
S1x2 == S1 \o <<"x", "2">>

H1_38 == Plus(S1, S38)

H4013_4 == Plus(S4_013, S4)

H4013_4_38 == Plus(H4013_4, S38)

\* the literal set hybrid_genes: tuples of haplotype names
HybridGeneSets ==
    { {},
      { <<S1, S38>> },
      { <<S4_013, S4>>, <<H4013_4, S38>> } }

\* the orders "for combination in special_combinations" can visit a set in:
\* the iteration order of a set of tuples of str changes with the hash seed
Orders(S) == {q \in [1..Cardinality(S) -> S] : Range(q) = S}

HybridGeneChoices == UNION {Orders(S) : S \in HybridGeneSets}

CnvExceptionChoices ==
    { <<S4_013, S5>>,
      <<S4_013, S5, H1_38>> }

CnvHybridChoices ==
    { (H1_38 :> 2) @@ (H4013_4 :> 1) }

CnvListChoices ==
    { [duplications |-> <<>>, triplication |-> <<>>],
      [duplications |-> <<S1, S4, S38>>, triplication |-> <<S1>>] }

RankingChoices ==
    { [top |-> <<S1, S4, S5>>, second |-> <<>>],
      [top |-> <<S1, S5>>, second |-> <<S1x2, S4, H1_38>>] }

\* the genotypes extract_rs_genotypes can return for a site, and the values
\* of the CYP2D6_CNV record (None when the VCF has no such record)
ObservedGenotypes(rsID) ==
    IF rsID = "rs1" THEN {<<"A", "/", "G">>} ELSE {<<"C", "/", "C">>}

ObservedCnv == {None, <<"1">>, <<"2">>}

\* sample_data after main's step 4 and sample_data['CNV'] = CNV_value
SampleChoices ==
    UNION {
        {SetAttr(genotypes, "CNV", CNV_value) :
            genotypes \in {g \in [sites -> UNION {ObservedGenotypes(r) : r \in sites}] :
                              \A r \in sites : g[r] \in ObservedGenotypes(r)},
            CNV_value \in ObservedCnv}
        : sites \in SUBSET CatalogSet}

(***************************************************************************)
(* The two programs, step by step                                          *)
(***************************************************************************)
Init ==
    /\ pc = "start"
    /\ pharmvardata \in SeqsUpTo(PharmVarRecords, MaxRecords)
    /\ haplotype_data = <<>>
    /\ hybrid_genes = <<>>
    /\ cnv_exceptions = <<>>
    /\ special_combinations_cnv = EmptyDict
    /\ cnv_lists = [duplications |-> <<>>, triplication |-> <<>>]
    /\ ranking = [top |-> <<>>, second |-> <<>>]
    /\ diplotypes_df = <<>>
    /\ sample_data = EmptyDict
    /\ matches = <<>>
    /\ outcome = "running"
    /\ first_match = None
    /\ adjusted_genotype = None

\* pharmvar_filtered_data = filter_for_rsnumbers(pharm_var_data, rs_ids)
FilterForRsnumbers ==
    /\ pc = "start"
    /\ haplotype_data' = filter_for_rsnumbers(pharmvardata, specific_rsIds)
    /\ pc' = "filtered"
    /\ UNCHANGED <<pharmvardata, hybrid_genes, cnv_exceptions, special_combinations_cnv,
                   cnv_lists, ranking, diplotypes_df, sample_data, matches, outcome,
                   first_match, adjusted_genotype>>

\* all_haplotypes_data = special_combinations(..., hybrid_genes, rs_ids)
SpecialCombinations ==
    /\ pc = "filtered"
    /\ \E combinations \in HybridGeneChoices :
          /\ hybrid_genes' = combinations
          /\ haplotype_data' = special_combinations(haplotype_data, combinations,
                                                    specific_rsIds)
    /\ pc' = "combined"
    /\ UNCHANGED <<pharmvardata, cnv_exceptions, special_combinations_cnv, cnv_lists,
                   ranking, diplotypes_df, sample_data, matches, outcome, first_match,
                   adjusted_genotype>>

\* haplotypes_data_cnv_ex9 = add_cnv_values_ex9(...)
AddCnvValuesEx9 ==
    /\ pc = "combined"
    /\ \E exceptions \in CnvExceptionChoices, predefined \in CnvHybridChoices :
          /\ cnv_exceptions' = exceptions
          /\ special_combinations_cnv' = predefined
          /\ haplotype_data' = add_cnv_values_ex9(haplotype_data, exceptions, predefined)
    /\ pc' = "cnv"
    /\ UNCHANGED <<pharmvardata, hybrid_genes, cnv_lists, ranking, diplotypes_df,
                   sample_data, matches, outcome, first_match, adjusted_genotype>>

\* data_with_cnv = cnv_variations(...)
CnvVariations ==
    /\ pc = "cnv"
    /\ \E lists \in CnvListChoices :
          /\ cnv_lists' = lists
          /\ haplotype_data' = cnv_variations(haplotype_data, lists.duplications,
                                              lists.triplication)
    /\ pc' = "variations"
    /\ UNCHANGED <<pharmvardata, hybrid_genes, cnv_exceptions, special_combinations_cnv,
                   ranking, diplotypes_df, sample_data, matches, outcome, first_match,
                   adjusted_genotype>>

\* haplotypes_dic = add_ranking(data_with_cnv, ranking)
AddRanking ==
    /\ pc = "variations"
    /\ \E tiers \in RankingChoices :
          /\ ranking' = tiers
          /\ haplotype_data' = add_ranking(haplotype_data, tiers)
    /\ pc' = "ranked"
    /\ UNCHANGED <<pharmvardata, hybrid_genes, cnv_exceptions, special_combinations_cnv,
                   cnv_lists, diplotypes_df, sample_data, matches, outcome, first_match,
                   adjusted_genotype>>

\* combinations = pair_haplotypes(haplotypes_dic), made a DataFrame and
\* pickled; the matcher's main reads the pickle back as diplotypes_df
PairHaplotypes ==
    /\ pc = "ranked"
    /\ diplotypes_df' = combinations_dict_to_dataframe(pair_haplotypes(haplotype_data))
    /\ pc' = "reference"
    /\ UNCHANGED <<pharmvardata, haplotype_data, hybrid_genes, cnv_exceptions,
                   special_combinations_cnv, cnv_lists, ranking, sample_data, matches,
                   outcome, first_match, adjusted_genotype>>

\* the matcher's main, steps 2 to 5: the sample is read, CNV attached, and
\* evaluate_matches either returns the match list or raises
EvaluateMatches ==
    /\ pc = "reference"
    /\ \E data_input \in SampleChoices :
          LET result == evaluate_matches(diplotypes_df, data_input)
          IN /\ sample_data' = data_input
             /\ matches' = result.matches
             /\ pc' = IF result.raised THEN "raised" ELSE "matched"
             /\ outcome' = IF result.raised THEN "AttributeError" ELSE outcome
    /\ UNCHANGED <<pharmvardata, haplotype_data, hybrid_genes, cnv_exceptions,
                   special_combinations_cnv, cnv_lists, ranking, diplotypes_df,
                   first_match, adjusted_genotype>>

\* print_matches(diplotypes_df, results, output_path, vcf_filename)
PrintMatches ==
    /\ pc = "matched"
    /\ LET matches_df == MatchesDf(diplotypes_df, matches)
       IN IF Len(matches_df) > 0
          THEN \E row \in FirstRows(matches_df) :
                  /\ first_match' = row["Genotype"]
                  /\ adjusted_genotype' = AdjustedGenotype(row["Genotype"])
                  /\ outcome' = "genotype saved"
          ELSE /\ outcome' = "No matches found."
               /\ UNCHANGED <<first_match, adjusted_genotype>>
    /\ pc' = "done"
    /\ UNCHANGED <<pharmvardata, haplotype_data, hybrid_genes, cnv_exceptions,
                   special_combinations_cnv, cnv_lists, ranking, diplotypes_df,
                   sample_data, matches>>

Next ==
    \/ FilterForRsnumbers
    \/ SpecialCombinations
    \/ AddCnvValuesEx9
    \/ CnvVariations
    \/ AddRanking
    \/ PairHaplotypes
    \/ EvaluateMatches
    \/ PrintMatches

Spec == Init /\ [][Next]_vars

(***************************************************************************)
(* Properties                                                              *)
(***************************************************************************)
Names == Keys(haplotype_data)

\* the row of the reference table with a given label
RowOf(label) ==
    diplotypes_df[CHOOSE i \in 1..Len(diplotypes_df) : diplotypes_df[i]["Genotype"] = label]

Labels == {diplotypes_df[i]["Genotype"] : i \in 1..Len(diplotypes_df)}

UnorderedPairs == {p \in (1..Len(Names)) \X (1..Len(Names)) : p[1] <= p[2]}

\* C1: a table of n haplotypes gives exactly n(n+1)/2 diplotype records, and
\* no two of the unordered pairs (self-pairs included) get the same label.
C1_PairCount ==
    pc = "reference" =>
        /\ 2 * Len(diplotypes_df) = Len(Names) * (Len(Names) + 1)
        /\ Cardinality(Labels) = Len(diplotypes_df)
        /\ Cardinality({CombinedKey(Names[p[1]], Names[p[2]]) : p \in UnorderedPairs})
               = Cardinality(UnorderedPairs)
        /\ \A p \in UnorderedPairs : CombinedKey(Names[p[1]], Names[p[2]]) \in Labels

\* the table paired holds two haplotypes of equal numeric key, and a
\* haplotype that follows one of a larger key
C1_Witness ==
    /\ pc = "reference"
    /\ Len(Names) >= 4
    /\ Len(diplotypes_df) >= 10
    /\ \E p \in UnorderedPairs :
          /\ p[1] # p[2]
          /\ extract_numeric_value(Names[p[1]]) = extract_numeric_value(Names[p[2]])
    /\ \E p \in UnorderedPairs :
          extract_numeric_value(Names[p[1]]) > extract_numeric_value(Names[p[2]])

\* C2: every diplotype record has CNV and Ranking equal to the sums of its
\* two haplotypes' CNV and Ranking, doubled for a self-pair.
C2_SumsOfPair ==
    pc = "reference" =>
        \A p \in UnorderedPairs :
            LET first == haplotype_data[p[1]]
                second == haplotype_data[p[2]]
                row == RowOf(CombinedKey(first.k, second.k))
            IN /\ row["CNV"] = first.v["CNV"] + second.v["CNV"]
               /\ row["Ranking"] = first.v["Ranking"] + second.v["Ranking"]

\* a haplotype of Ranking 2 and CNV 1 paired with itself gives Ranking 4, CNV 2
C2_Witness ==
    /\ pc = "reference"
    /\ \E i \in 1..Len(haplotype_data) :
          /\ haplotype_data[i].v["CNV"] = 1
          /\ haplotype_data[i].v["Ranking"] = 2
          /\ RowOf(CombinedKey(Names[i], Names[i]))["CNV"] = 2
          /\ RowOf(CombinedKey(Names[i], Names[i]))["Ranking"] = 4

\* C3: for any two haplotypes A and B of the table, the pair taken as (A, B)
\* and as (B, A) gets the same label and the same merged rs, CNV and Ranking
\* values, also when A and B have equal numeric keys.
C3_OrderStable ==
    pc = "ranked" =>
        \A i, j \in 1..Len(Names) :
            /\ CombinedKey(Names[i], Names[j]) = CombinedKey(Names[j], Names[i])
            /\ CombinedRow(haplotype_data, Names[i], Names[j])
                   = CombinedRow(haplotype_data, Names[j], Names[i])

\* evaluate_matches has just returned or raised
Evaluated == pc \in {"matched", "raised"}

ObservedSites == DOMAIN sample_data \cap CatalogSet

\* the observation and the row agree on every site id they share
SitesAgree(row) ==
    \A rsID \in ObservedSites \cap DOMAIN row :
        Range(SplitOn(sample_data[rsID], "/")) = Range(SplitOn(row[rsID], "/"))

\* the observed CNV, split on '/', is the row's CNV written in decimal
CnvAgrees(row, CNV_value) ==
    Range(SplitOn(CNV_value, "/")) = {StrInt(row["CNV"])}

\* C4 as claimed: evaluate_matches returns the label of a record exactly
\* when the observation and the record agree on every site id they share.
C4_SitesDecide ==
    pc = "matched" =>
        \A i \in 1..Len(diplotypes_df) :
            diplotypes_df[i]["Genotype"] \in Range(matches) <=> SitesAgree(diplotypes_df[i])

\* C4: evaluate_matches returns the label of a record exactly when the
\* observation and the record agree on every key they share, the site ids
\* and the key CNV that main attaches (compared with the record's CNV written
\* in decimal); a record sharing no site id with the observation is returned
\* when its CNV agrees; with CNV = None and a table that has a row the call
\* raises AttributeError and returns no list.
C4_SharedKeysDecide ==
    Evaluated =>
        IF sample_data["CNV"] = None
        THEN pc = "raised" /\ outcome = "AttributeError" /\ matches = <<>>
        ELSE /\ pc # "raised"
             /\ \A i \in 1..Len(diplotypes_df) :
                   LET row == diplotypes_df[i]
                   IN /\ row["Genotype"] \in Range(matches)
                          <=> SitesAgree(row) /\ CnvAgrees(row, sample_data["CNV"])
                      /\ (ObservedSites \cap DOMAIN row = {} /\ CnvAgrees(row, sample_data["CNV"]))
                             => row["Genotype"] \in Range(matches)

\* a record that agrees with the observed sites is left out for its CNV,
\* and another one is returned
C4_Witness ==
    /\ pc = "matched"
    /\ ObservedSites # {}
    /\ \E i, j \in 1..Len(diplotypes_df) :
          /\ SitesAgree(diplotypes_df[i])
          /\ diplotypes_df[i]["Genotype"] \notin Range(matches)
          /\ diplotypes_df[j]["Genotype"] \in Range(matches)

\* C5 as claimed: two observations with the same per-site strings that
\* differ only in the attached CNV value get the same matching labels.
C5_CnvIgnored ==
    pc = "matched" =>
        \A CNV_value \in ObservedCnv \ {None} :
            Range(evaluate_matches(diplotypes_df,
                                   SetAttr(sample_data, "CNV", CNV_value)).matches)
                = Range(matches)

\* sample_data before main attaches the key CNV
GenotypesOnly == [rsID \in ObservedSites |-> sample_data[rsID]]

\* C5: the observed CNV filters the matches: the labels returned are those
\* returned for the same per-site strings with no CNV attached whose record
\* has the observed CNV (its decimal text being the only piece of the observed
\* string split on '/'), in the same order; with CNV = None the call raises.
C5_CnvFilters ==
    Evaluated =>
        LET unfiltered == evaluate_matches(diplotypes_df, GenotypesOnly)
        IN /\ ~unfiltered.raised
           /\ IF sample_data["CNV"] = None THEN pc = "raised"
              ELSE matches = SelectSeq(unfiltered.matches,
                                       LAMBDA label : CnvAgrees(RowOf(label), sample_data["CNV"]))

\* the observed CNV removes some of the labels the sites alone would match
C5_Witness ==
    /\ pc = "matched"
    /\ sample_data["CNV"] = <<"2">>
    /\ Len(matches) > 0
    /\ Len(matches) < Len(evaluate_matches(diplotypes_df, GenotypesOnly).matches)

\* C6: a genotype call is written exactly when the match list is not empty;
\* it is then made from the label of a row that is in the match list and has
\* the largest Ranking of the matching rows; an empty match list ends in
\* "No matches found." and no error.
C6_BestRankedMatch ==
    pc = "done" =>
        /\ outcome \in {"genotype saved", "No matches found."}
        /\ outcome = "genotype saved" <=> Len(matches) > 0
        /\ Len(matches) = 0 => first_match = None /\ adjusted_genotype = None
        /\ Len(matches) > 0 =>
              /\ first_match \in Range(matches)
              /\ \A label \in Range(matches) :
                    RowOf(first_match)["Ranking"] >= RowOf(label)["Ranking"]
              /\ adjusted_genotype = AdjustedGenotype(first_match)

\* a call made among matches of different Ranking
C6_Witness ==
    /\ pc = "done"
    /\ outcome = "genotype saved"
    /\ \E label \in Range(matches) : RowOf(label)["Ranking"] < RowOf(first_match)["Ranking"]

\* C7: with no CNV record in the sample (CNV = None attached) matching still
\* ends in a genotype call or in "no match", never in a fatal error.
C7_NoneCnvTolerated ==
    (Evaluated /\ sample_data["CNV"] = None) =>
        /\ pc # "raised"
        /\ outcome # "AttributeError"

\* C8: after add_cnv_values_ex9 every haplotype has the CNV of the override
\* mapping if its name is there (also when it is on the exception list),
\* otherwise 0 if its name is on the exception list, otherwise 1.
C8_OverrideWins ==
    pc = "cnv" =>
        \A i \in 1..Len(haplotype_data) :
            LET name == haplotype_data[i].k
            IN haplotype_data[i].v["CNV"] =
                  IF name \in DOMAIN special_combinations_cnv
                  THEN special_combinations_cnv[name]
                  ELSE IF name \in Range(cnv_exceptions) THEN 0 ELSE 1

\* a haplotype on the exception list and in the override mapping, next to one
\* that is only on the exception list and one that is on neither
C8_Witness ==
    /\ pc = "cnv"
    /\ \E i, j, m \in 1..Len(haplotype_data) :
          /\ Names[i] \in Range(cnv_exceptions)
          /\ Names[i] \in DOMAIN special_combinations_cnv
          /\ haplotype_data[i].v["CNV"] = 2
          /\ Names[j] \in Range(cnv_exceptions)
          /\ haplotype_data[j].v["CNV"] = 0
          /\ haplotype_data[m].v["CNV"] = 1

\* the five rules of the Ranking, first match first
RankingRule(name, top_tier, second_tier) ==
    LET multiplied == /\ Len(name) >= 2
                      /\ name[Len(name) - 1] = "x"
                      /\ name[Len(name)] \in {"2", "3"}
        combined == \E i \in 1..Len(name) : name[i] = "+"
    IN IF name \in top_tier THEN 2
       ELSE IF multiplied THEN 2
       ELSE IF name \in second_tier THEN 1
       ELSE IF combined THEN 1
       ELSE 0

\* C9: add_ranking gives every haplotype the Ranking of the first rule that
\* matches (Top Tier 2, ends with x2 or x3 2, 2nd Tier 1, contains '+' 1,
\* otherwise 0) and leaves its CNV and per-site alleles as they were.
C9_RankingRules ==
    [][(pc = "variations" /\ pc' = "ranked") =>
          /\ Len(haplotype_data') = Len(haplotype_data)
          /\ \A i \in 1..Len(haplotype_data) :
                /\ haplotype_data'[i].k = haplotype_data[i].k
                /\ haplotype_data'[i].v["Ranking"] =
                      RankingRule(haplotype_data[i].k, Range(ranking'.top),
                                  Range(ranking'.second))
                /\ DOMAIN haplotype_data'[i].v = DOMAIN haplotype_data[i].v \cup {"Ranking"}
                /\ \A column \in DOMAIN haplotype_data[i].v :
                      haplotype_data'[i].v[column] = haplotype_data[i].v[column]
      ]_vars

\* a table ranked with a duplication that is also on the 2nd Tier list, a
\* combination on no list, and haplotypes of all three tiers
C9_Witness ==
    /\ pc = "ranked"
    /\ \E i \in 1..Len(haplotype_data) :
          /\ Names[i] \in Range(ranking.second)
          /\ EndsWith(Names[i], <<"x", "2">>)
          /\ haplotype_data[i].v["Ranking"] = 2
    /\ \E i \in 1..Len(haplotype_data) :
          /\ Contains(Names[i], "+")
          /\ Names[i] \notin Range(ranking.second)
          /\ haplotype_data[i].v["Ranking"] = 1
    /\ \E i \in 1..Len(haplotype_data) : haplotype_data[i].v["Ranking"] = 0

\* the name up to its first '.'
BaseName(name) ==
    SubSeq(name, 1, (CHOOSE i \in 1..Len(name) :
                        name[i] = "." /\ \A j \in 1..(i - 1) : name[j] # ".") - 1)

\* C10: in the output of filter_for_rsnumbers no sub-variant (name with a
\* '.') has the per-site map of its base haplotype when the base is present,
\* so that the collapse pass applied again removes nothing.
C10_CollapseIdempotent ==
    pc = "filtered" =>
        /\ \A i \in 1..Len(haplotype_data) :
              (Contains(Names[i], ".") /\ BaseName(Names[i]) \in Range(Names))
                  => haplotype_data[i].v # Get(haplotype_data, BaseName(Names[i]))
        /\ collapse_subvariants(haplotype_data) = haplotype_data

\* a sub-variant of the input was collapsed into its base
C10_Witness ==
    /\ pc = "filtered"
    /\ \E i \in 1..Len(pharmvardata) :
          /\ Contains(pharmvardata[i].name, ".")
          /\ pharmvardata[i].name \notin Range(Names)
          /\ BaseName(pharmvardata[i].name) \in Range(Names)

\* the output of the Builder, which special_combinations starts from
BuilderOutput == filter_for_rsnumbers(pharmvardata, specific_rsIds)

\* the table the k-th tuple processed finds: the tuples before it are done
TableFoundBy(k) ==
    special_combinations(BuilderOutput, SubSeq(hybrid_genes, 1, k - 1), specific_rsIds)

\* the allele values the members of a tuple contribute for a site
Contributed(table, tuple, rsID) ==
    {Get(table, tuple[m])[rsID] :
        m \in {n \in 1..Len(tuple) :
                  Has(table, tuple[n]) /\ rsID \in DOMAIN Get(table, tuple[n])}}

\* the members of a set of strings in alphabetical order
Ascending(S) ==
    CHOOSE q \in Orders(S) : \A i, j \in 1..Len(q) : i < j => StrLess(q[i], q[j])

MergedAllele(S) ==
    IF S = {} THEN <<"-">>
    ELSE IF Cardinality(S) = 1 THEN CHOOSE x \in S : TRUE
    ELSE Join(Ascending(S), <<"/">>)

\* C11: after special_combinations, for every tuple the table has the
\* haplotype named by the tuple's names joined with '+', and its allele at
\* every catalog site is '-' when no member present in the table the tuple
\* found has an entry for the site, the common value when all contributing
\* members carry the same one, and otherwise the distinct contributed values
\* in alphabetical order joined with '/'; a member that is not in the table
\* contributes nothing and the call still returns.
C11_SiteMerge ==
    pc = "combined" =>
        \A k \in 1..Len(hybrid_genes) :
            LET combined_name == Join(hybrid_genes[k], <<"+">>)
            IN /\ Has(haplotype_data, combined_name)
               /\ DOMAIN Get(haplotype_data, combined_name) = CatalogSet
               /\ \A rsID \in CatalogSet :
                     Get(haplotype_data, combined_name)[rsID] =
                         MergedAllele(Contributed(TableFoundBy(k), hybrid_genes[k], rsID))

\* two tuples are done: one found none of its members in the table and got
\* '-', the other merged 'T' and 'C', in this order of its members, to 'C/T'
\* and differing alleles of the other site likewise
C11_Witness ==
    /\ pc = "combined"
    /\ Len(hybrid_genes) = 2
    /\ \E k \in 1..2 :
          /\ \A m \in 1..Len(hybrid_genes[k]) : ~Has(TableFoundBy(k), hybrid_genes[k][m])
          /\ \A rsID \in CatalogSet :
                Get(haplotype_data, Join(hybrid_genes[k], <<"+">>))[rsID] = <<"-">>
    /\ Has(haplotype_data, S4_013)
    /\ Has(haplotype_data, S4)
    /\ Get(haplotype_data, S4_013)["rs2"] = <<"T">>
    /\ Get(haplotype_data, S4)["rs2"] = <<"C">>
    /\ Get(haplotype_data, H4013_4)["rs2"] = <<"C", "/", "T">>
    /\ Get(haplotype_data, H4013_4)["rs1"] = <<"A", "/", "G">>

\* C12: the result of special_combinations is the same for every order in
\* which the tuples of the set are processed: the same haplotype names with
\* the same per-site alleles, also when a member of one tuple is the joined
\* name of another.
C12_OrderIndependent ==
    pc = "combined" =>
        \A order \in Orders(Range(hybrid_genes)) :
            Range(special_combinations(BuilderOutput, order, specific_rsIds))
                = Range(haplotype_data)

\* a genotype call has been written
Saved == pc = "done" /\ outcome = "genotype saved"

\* a haplotype name without its locus name
Bare(name) ==
    IF Len(name) >= Len(Locus) /\ SubSeq(name, 1, Len(Locus)) = Locus
    THEN SubSeq(name, Len(Locus) + 1, Len(name))
    ELSE name

\* the two members of a label
Members(label) == SplitOn(label, "/")

\* a label with the locus name kept by its very first haplotype name only:
\* every later name, after '/' or after '+', is written bare
LeadingPrefixOnly(label) ==
    Join([m \in 1..Len(Members(label)) |->
            LET parts == SplitOn(Members(label)[m], "+")
            IN Join([n \in 1..Len(parts) |->
                        IF m = 1 /\ n = 1 THEN parts[n] ELSE Bare(parts[n])],
                    <<"+">>)],
         <<"/">>)

\* C13 as claimed: the call is the label with the first member as it is, a
\* hybrid name in it keeping both prefixes, then '/', then the second member
\* without its leading prefix (or, if it is a hybrid, possibly intact).
C13_HybridIntact ==
    Saved =>
        \E second \in {Bare(Members(first_match)[2])}
                      \cup (IF Contains(Members(first_match)[2], "+")
                            THEN {Members(first_match)[2]} ELSE {}) :
            adjusted_genotype = Members(first_match)[1] \o <<"/">> \o second

\* C13: the call is the winning label with the locus name removed from every
\* haplotype name but the very first: the leading name keeps it, the member
\* after '/' loses it with the '/' kept, and the later names of a '+'-joined
\* hybrid lose it too, with the '+' kept (LOCUS*1+LOCUS*38 is written
\* LOCUS*1+*38).
C13_LeadingPrefixOnly ==
    Saved =>
        /\ adjusted_genotype = LeadingPrefixOnly(first_match)
        /\ SubSeq(adjusted_genotype, 1, Len(Locus)) = Locus
        /\ \A i \in 2..(Len(adjusted_genotype) - Len(Locus) + 1) :
              SubSeq(adjusted_genotype, i, i + Len(Locus) - 1) # Locus

\* the call written for a label whose first member is a hybrid
C13_Witness ==
    /\ Saved
    /\ Contains(Members(first_match)[1], "+")
    /\ Len(SplitOn(adjusted_genotype, "/")) = 2
    /\ Len(SplitOn(adjusted_genotype, "+")) = 2
    /\ adjusted_genotype # first_match

\* the entry derived from a source entry: the same attributes, CNV replaced
Derived(source, copies) ==
    [column \in DOMAIN source |-> IF column = "CNV" THEN copies ELSE source[column]]

TotalOverCatalog(row) ==
    /\ CatalogSet \subseteq DOMAIN row
    /\ \A rsID \in CatalogSet : row[rsID] # None /\ Len(row[rsID]) > 0

\* the haplotype names of the input records
RecordNames == {pharmvardata[i].name : i \in 1..Len(pharmvardata)}

\* what a haplotype without a variant at a site gets: the reference allele of
\* the records of the site, '-' when the input has no record of the site
ExpectedReference(rsID) ==
    IF \E i \in 1..Len(pharmvardata) : pharmvardata[i].rsID = rsID
    THEN ReferenceAllele(rsID)
    ELSE <<"-">>

\* C15: at every stage of the construction (after filter_for_rsnumbers,
\* special_combinations, add_cnv_values_ex9, cnv_variations and add_ranking)
\* every haplotype has an allele for every site id of the catalog, and so has
\* every diplotype record of pair_haplotypes; CYP2D6*1 and CYP2D6*5 are in the
\* Builder's output also when no input record names them, with the reference
\* allele (or '-') at every site.
C15_TotalOverCatalog ==
    /\ pc \in {"filtered", "combined", "cnv", "variations", "ranked"} =>
          \A i \in 1..Len(haplotype_data) : TotalOverCatalog(haplotype_data[i].v)
    /\ pc = "reference" =>
          \A i \in 1..Len(diplotypes_df) : TotalOverCatalog(diplotypes_df[i])
    /\ pc = "filtered" =>
          \A name \in {S1, S5} :
              /\ Has(haplotype_data, name)
              /\ name \notin RecordNames =>
                    \A rsID \in CatalogSet :
                        Get(haplotype_data, name)[rsID] = ExpectedReference(rsID)
    /\ pc \in {"combined", "cnv", "variations", "ranked"} =>
          Has(haplotype_data, S1) /\ Has(haplotype_data, S5)

\* the reference table is built from records that name neither CYP2D6*1 nor
\* CYP2D6*5 and cover one site of the two; the table paired holds a hybrid
\* and a duplication, and CYP2D6*1 has the reference allele at the site
\* covered and '-' at the other
C15_Witness ==
    /\ pc = "reference"
    /\ RecordNames \cap {S1, S5} = {}
    /\ \E i \in 1..Len(pharmvardata) : pharmvardata[i].rsID = "rs1"
    /\ \A i \in 1..Len(pharmvardata) : pharmvardata[i].rsID # "rs2"
    /\ Get(haplotype_data, S1)["rs1"] = ReferenceAllele("rs1")
    /\ Get(haplotype_data, S1)["rs2"] = <<"-">>
    /\ Has(haplotype_data, S5)
    /\ \E i \in 1..Len(haplotype_data) : Contains(Names[i], "+")
    /\ \E i \in 1..Len(haplotype_data) : EndsWith(Names[i], <<"x", "2">>)
    /\ \E i \in 1..Len(diplotypes_df) : Contains(diplotypes_df[i]["rs1"], "/")

\* C16: in every diplotype record the allele of every site is the common
\* value when the two haplotypes of the label carry the same allele, and
\* otherwise the allele of the haplotype named first in the label, '/', and
\* the allele of the haplotype named second, whatever the order of the two
\* haplotypes in the table.
C16_LabelOrderMerge ==
    pc = "reference" =>
        \A i \in 1..Len(diplotypes_df) :
            LET row == diplotypes_df[i]
                first == Get(haplotype_data, Members(row["Genotype"])[1])
                second == Get(haplotype_data, Members(row["Genotype"])[2])
            IN \A rsID \in CatalogSet :
                  row[rsID] = IF first[rsID] = second[rsID] THEN first[rsID]
                              ELSE first[rsID] \o <<"/">> \o second[rsID]
=============================================================================
